---- MODULE Spec2Model ----
(***************************************************************************)
(* A model of caio: the task pool of src/taskpool.c, the round-robin       *)
(* scheduler, call stack and task registry of src/caio.c, the error macros *)
(* of src/caio/caio.h and the io_uring backend of src/caio/io_uring.c.     *)
(*                                                                         *)
(* Pointers are indices.  A struct caio_task pointer into a pool is the    *)
(* index of the slot; the slot at index pool_size is the memory directly   *)
(* behind the array, which pool->last points at (taskpool.c:91).  size_t   *)
(* counters are kept as integers standing for their residue modulo 2^64:   *)
(* a negative value -k stands for 2^64 - k (the result of decrementing     *)
(* below zero).                                                            *)
(***************************************************************************)
EXTENDS Integers, Sequences, FiniteSets, TLC

VARIABLES
    pool_size,      \* pool->size
    pool_tasks,     \* pool->tasks[0 .. size], index size is *pool->last
    pool_count,     \* pool->count (size_t, see above)
    handed,         \* the task pointers caio_taskpool_lease has returned
    plog            \* the last pool call: what, on which task, the count
                    \* before it, the leases in a row since init (-1 once
                    \* a release was made), the size given to init

VARIABLES
    maxtasks,       \* _tasks.size, set by caio_init
    callstack_size, \* _callstack_size, set by caio_init
    reg,            \* _tasks.array[0 .. size-1]: a task or NULL
    reg_count,      \* _tasks.count
    tasks,          \* every struct caiotask ever allocated, by address
    calls,          \* every struct caiocall ever allocated, by address
    pc,             \* where the program is: "setup", in caio_forever
                    \* ("while", "for"), "returned" or "crashed"
    taskindex,      \* caio_forever's loop variable
    faults,         \* what went wrong so far (allocation failures, undefined
                    \* operations)
    ooms,           \* the allocation failures so far
    sweep,          \* the passes of caio_forever's for loop begun so far
    visited,        \* this pass: per slot reached, the task found and stepped
    atstart         \* the tasks registered when this pass began, each
                    \* with the steps it had taken by then

VARIABLES
    ustep,          \* where caio_io_uring_init is: "setup", "mmap_sq",
                    \* "mmap_cq", "mmap_sqes", "returned"
    maxentries,     \* its argument maxtasks
    p,              \* struct io_uring_params as the kernel filled it
    ringfd,         \* u->ringfd
    openfds,        \* the descriptors the process holds
    maps,           \* the mappings the process holds, in the order made:
                    \* each with its length and its offset argument
    sq,             \* the locals sq and cq and u->sqes: a mapping (its place
    cq,             \* in maps), MAP_FAILED, or not assigned yet
    sqes,
    uret            \* what caio_io_uring_init returned

VARIABLES
    self,           \* a task as the error macros see it: status and eno
    oplog           \* the macros run on it so far, in order

VARIABLES
    ring_entries,   \* the entries of the submission ring
    sring_tail,     \* *sring_tail, written by the process
    sring_head,     \* the submission head, written by the kernel
    cring_head,     \* *cring_head, written by the process
    cring_tail,     \* *cring_tail, written by the kernel
    rpc,            \* the process: "idle", or "enter" inside io_uring_enter
    pending,        \* operations the kernel took and has not completed
    overflown       \* completions that found the completion ring full

poolvars == <<pool_size, pool_tasks, pool_count, handed, plog>>
schedvars == <<maxtasks, callstack_size, reg, reg_count, tasks, calls, pc,
               taskindex, faults, ooms, sweep, visited, atstart>>
uringvars == <<ustep, maxentries, p, ringfd, openfds, maps, sq, cq, sqes, uret>>
macrovars == <<self, oplog>>
ringvars == <<ring_entries, sring_tail, sring_head, cring_head, cring_tail,
              rpc, pending, overflown>>
extvars == <<uringvars, macrovars, ringvars>>
vars == <<poolvars, schedvars, extvars>>

(***************************************************************************)
(* Bounds of the model.                                                    *)
(***************************************************************************)
MaxPoolSize == 3
MaxUnderflow == 2
MaxLeaseRun == 5
MaxReg == 2
MaxTasks == 2
MaxDepth == 3
MaxOom == 0
MaxSweeps == 8
MaxMacroOps == 3
MaxEntries == 3
MaxRingEntries == 2
MaxSubmits == 5

NULL == -1

(***************************************************************************)
(* enum caio_taskstatus, src/caio/caio.h:23-29.                            *)
(***************************************************************************)
CAIO_IDLE == 1
CAIO_RUNNING == 2
CAIO_WAITING == 4
CAIO_TERMINATING == 8
CAIO_TERMINATED == 16

\* What the memory behind the array may hold: it is not the pool's.  Two of
\* the words are no member of the enum: bit 5 alone, and bit 5 with the IDLE
\* bit.
STRAY_STATUS == 2 * CAIO_TERMINATED
BeyondStatus ==
    {0, CAIO_IDLE, CAIO_RUNNING, STRAY_STATUS, STRAY_STATUS + CAIO_IDLE}

\* Foreign memory read as a struct caio_task: any status word above, an error
\* code and a frame pointer that are zero or not.
BeyondTask == [status : BeyondStatus, eno : 0..1, current : 0..1]

(***************************************************************************)
(* The C operator & on non-negative ints.                                  *)
(***************************************************************************)
RECURSIVE BitAnd(_, _)
BitAnd(a, b) ==
    IF a = 0 \/ b = 0 THEN 0
    ELSE (IF a % 2 = 1 /\ b % 2 = 1 THEN 1 ELSE 0) + 2 * BitAnd(a \div 2, b \div 2)

\* calloc + memset (taskpool.c:87,93): a zero-filled struct caio_task.
ZeroTask == [status |-> 0, eno |-> 0, current |-> 0]

\* TASK_RESET(t, s), taskpool.c:24-27.  current = NULL is the zero pointer.
TASK_RESET(t, s) == [status |-> s, eno |-> 0, current |-> 0]

(***************************************************************************)
(* caio_taskpool_next(pool, task, statuses), taskpool.c:46-62.  The scan   *)
(* runs while task <= pool->last, and pool->last is tasks + size.          *)
(***************************************************************************)
RECURSIVE ScanFrom(_, _, _, _)
ScanFrom(slots, last, task, statuses) ==
    IF task > last THEN NULL
    ELSE IF BitAnd(slots[task].status, statuses) # 0 THEN task
    ELSE ScanFrom(slots, last, task + 1, statuses)

caio_taskpool_next(slots, last, task, statuses) ==
    ScanFrom(slots, last, IF task = NULL THEN 0 ELSE task, statuses)

(***************************************************************************)
(* caio_taskpool_init(pool, size), taskpool.c:79-104, as a function of     *)
(* size and of what the memory behind the array holds.                     *)
(***************************************************************************)
InitMask == CAIO_RUNNING + CAIO_WAITING + CAIO_TERMINATING + CAIO_TERMINATED

RECURSIVE InitSweep(_, _, _)
InitSweep(slots, last, cursor) ==
    LET task == caio_taskpool_next(slots, last, cursor, InitMask)
    IN  IF task = NULL THEN slots
        ELSE InitSweep([slots EXCEPT ![task] = TASK_RESET(slots[task], CAIO_IDLE)],
                       last, task + 1)

caio_taskpool_init(size, beyond) ==
    LET zeroed == [i \in 0..size |-> IF i < size THEN ZeroTask ELSE beyond]
    IN  InitSweep(zeroed, size, NULL)

(***************************************************************************)
(* caio_taskpool_lease(pool), taskpool.c:65-76.                            *)
(***************************************************************************)
caio_taskpool_lease ==
    LET task == caio_taskpool_next(pool_tasks, pool_size, NULL, CAIO_IDLE)
        run == IF plog.run >= 0 THEN plog.run + 1 ELSE plog.run
    IN  /\ plog.run < MaxLeaseRun
        /\ plog' = [op |-> "lease", task |-> task, before |-> pool_count,
                    run |-> run, size |-> plog.size]
        /\ IF task = NULL
           THEN UNCHANGED <<pool_tasks, pool_count, handed>>
           ELSE /\ pool_tasks' = [pool_tasks EXCEPT
                                    ![task] = TASK_RESET(@, CAIO_RUNNING)]
                /\ pool_count' = pool_count + 1
                /\ handed' = handed \cup {task}
        /\ UNCHANGED <<pool_size, schedvars, extvars>>

(***************************************************************************)
(* caio_taskpool_release(pool, task), taskpool.c:30-43, on a task pointer  *)
(* the caller holds.  A NULL task returns -1 and changes nothing.          *)
(***************************************************************************)
caio_taskpool_release(task) ==
    /\ pool_count > 0 - MaxUnderflow
    /\ plog' = [op |-> "release", task |-> task, before |-> pool_count,
                run |-> -1, size |-> plog.size]
    /\ IF task = NULL
       THEN UNCHANGED <<pool_tasks, pool_count>>
       ELSE /\ pool_tasks' = [pool_tasks EXCEPT
                                ![task] = TASK_RESET(@, CAIO_IDLE)]
            /\ pool_count' = pool_count - 1
    /\ UNCHANGED <<pool_size, handed, schedvars, extvars>>

(***************************************************************************)
(* Coroutines.  A coroutine is application code; the model runs a small    *)
(* catalogue of them.  Each invocation executes the operation at the       *)
(* frame's resume position:                                                *)
(*   again      suspend: return "not done"                                 *)
(*   done       run to the end (the finalization branch included): return  *)
(*              "done"                                                     *)
(*   await      caio_call_new(self, c, ..) and return "not done"           *)
(*   awaitdone  caio_call_new(self, c, ..) and return "done" at once       *)
(*   spawn      caio_task_new(c, ..) and return "not done"                 *)
(***************************************************************************)
Again == [k |-> "again", c |-> ""]
Done == [k |-> "done", c |-> ""]
Await(c) == [k |-> "await", c |-> c]
AwaitDone(c) == [k |-> "awaitdone", c |-> c]
Spawn(c) == [k |-> "spawn", c |-> c]

Coros == {"A", "W", "B", "N", "AD", "S"}

CoroBody(coro) ==
    CASE coro = "A" -> <<Done>>
      [] coro = "W" -> <<Again, Done>>
      [] coro = "B" -> <<Await("W"), Done>>
      [] coro = "N" -> <<Await("B"), Done>>
      [] coro = "AD" -> <<AwaitDone("A")>>
      [] coro = "S" -> <<Spawn("A"), Done>>

\* The coroutines that only suspend, await a child and finish.
Plain == {"A", "W", "B", "N"}

\* The invocations a coroutine needs until it returns "done", its children's
\* included, and the child frames it pushes, its children's included.
StepsOf(coro) ==
    CASE coro = "A" -> 1
      [] coro = "W" -> 2
      [] coro = "B" -> 4
      [] coro = "N" -> 6
      [] OTHER -> 0

KidsOf(coro) ==
    CASE coro = "B" -> 1
      [] coro = "N" -> 2
      [] OTHER -> 0

(***************************************************************************)
(* The containers caio.c instantiates (generic_array, generic_stack).      *)
(***************************************************************************)
\* caiotask_array_append: the first NULL slot, or -1 when there is none.
FirstFree(array) ==
    IF \E i \in DOMAIN array : array[i] = NULL
    THEN CHOOSE i \in DOMAIN array :
            /\ array[i] = NULL
            /\ \A j \in DOMAIN array : array[j] = NULL => i <= j
    ELSE NULL

\* caiotask_array_del(&_tasks, index): out of range it returns -1; in range
\* it clears the slot and decrements the count.
ArrayDel(w, index) ==
    IF index \in DOMAIN w.reg
    THEN [w EXCEPT !.reg[index] = NULL, !.count = @ - 1]
    ELSE w

\* caiocall_stack_last / caiocall_stack_pop on a sequence, innermost last.
StackLast(stack) == IF stack = <<>> THEN NULL ELSE stack[Len(stack)]
StackPop(stack) == IF stack = <<>> THEN <<>> ELSE SubSeq(stack, 1, Len(stack) - 1)

(***************************************************************************)
(* The operations of caio.c act on the heap and the registry, here a       *)
(* record w: tasks, calls, reg, count, faults, ooms, and hit, which says   *)
(* that the running operation has done something undefined.                *)
(***************************************************************************)

\* A struct caiotask as caio_task_new leaves it after malloc (caio.c:78-82),
\* with its history: how often it was freed, disposed and stepped, the frames
\* pushed on it, popped by caio_task_step and drained by _caio_task_dispose,
\* the depth of its call stack when a caio_call_new on it failed, and how
\* often it was read or written after it was freed (late).  status is the
\* word the coroutine macros write (caio/caio.h:97,111); caio.c itself never
\* writes it.
NewTask(coro) ==
    [coro |-> coro, index |-> NULL, running_coros |-> 0, callstack |-> <<>>,
     status |-> 0, freed |-> 0, disposed |-> 0, drained |-> 0, steps |-> 0,
     pushes |-> 0, pops |-> 0, errdepth |-> NULL, late |-> 0]

\* A struct caiocall as caio_call_new fills it (caio.c:114-115), with its
\* history: the frame that pushed it and how often that one had been invoked
\* by then; how often it was invoked, ran its finalization branch, was freed,
\* and was drained by _caio_task_dispose.
NewCall(t, coro, parent, pinv) ==
    [task |-> t, coro |-> coro, line |-> 1, parent |-> parent, pinv |-> pinv,
     freed |-> 0, inv |-> 0, fin |-> 0, drained |-> 0]

\* F applied to the value of v, v being evaluated once.
Bind(v, F(_)) == CHOOSE r \in {F(x) : x \in {v}} : TRUE

(***************************************************************************)
(* _caio_task_dispose(task), caio.c:61-72.  g is what an uninitialised     *)
(* task->index reads as.                                                   *)
(***************************************************************************)
\* _caio_task_dispose with "if" for "while": only the top frame is popped
\* and freed.
DisposeBody_TopOnly(w, t, g) ==
    LET task == w.tasks[t]
        stack == task.callstack
        top == StackLast(stack)
        index == IF task.index = NULL THEN g ELSE task.index
    IN  ArrayDel(
            [w EXCEPT
                !.calls = [c \in DOMAIN @ |->
                             IF c = top
                             THEN [@[c] EXCEPT !.freed = @ + 1,
                                               !.drained = @ + 1]
                             ELSE @[c]],
                !.tasks[t].callstack = StackPop(stack),
                !.tasks[t].drained = @ + (IF stack = <<>> THEN 0 ELSE 1),
                !.tasks[t].disposed = @ + 1,
                !.tasks[t].freed = @ + 1],
            index)

DisposeBody(w, t, g) ==
    LET task == w.tasks[t]
        stack == task.callstack
        onstack(c) == \E i \in DOMAIN stack : stack[i] = c
        index == IF task.index = NULL THEN g ELSE task.index
        what == (IF task.freed > 0 THEN {"use after free"} ELSE {})
                \cup (IF task.index = NULL THEN {"uninitialised index"} ELSE {})
    IN  ArrayDel(
            [w EXCEPT
                !.faults = @ \cup what,
                !.hit = @ \/ what # {},
                !.calls = [c \in DOMAIN @ |->
                             IF onstack(c)
                             THEN [@[c] EXCEPT !.freed = @ + 1,
                                               !.drained = @ + 1]
                             ELSE @[c]],
                !.tasks[t].callstack = <<>>,
                !.tasks[t].late = IF task.freed > 0 THEN @ + 1 ELSE @,
                !.tasks[t].drained = @ + Len(stack),
                !.tasks[t].disposed = @ + 1,
                !.tasks[t].freed = @ + 1],
            index)

_caio_task_dispose(w, t, g) == Bind(w, LAMBDA x : DisposeBody(x, t, g))

\* An allocation or a push fails: nothing undefined in that by itself.
Fails(w, what, oom) ==
    [w EXCEPT !.faults = @ \cup {what}, !.ooms = IF oom THEN @ + 1 ELSE @]

(***************************************************************************)
(* caio_call_new(task, coro, state), caio.c:107-124.  ok: malloc succeeds. *)
(***************************************************************************)
CallNewBody(w, t, coro, ok, g) ==
    LET depth == Len(w.tasks[t].callstack)
        parent == StackLast(w.tasks[t].callstack)
        call == NewCall(t, coro, parent,
                        IF parent = NULL THEN 0 ELSE w.calls[parent].inv)
    IN
    IF ~ok
    THEN [w |-> _caio_task_dispose(
                    Fails([w EXCEPT !.tasks[t].errdepth = depth],
                          "out of memory", TRUE),
                    t, g),
          ret |-> -1]
    ELSE IF depth >= callstack_size
    THEN [w |-> _caio_task_dispose(
                    Fails([w EXCEPT !.calls = Append(@, call),
                                    !.tasks[t].errdepth = depth],
                          "call stack full", FALSE),
                    t, g),
          ret |-> -1]
    ELSE [w |-> [w EXCEPT !.calls = Append(@, call),
                          !.tasks[t].callstack = Append(@, Len(w.calls) + 1),
                          !.tasks[t].running_coros = @ + 1,
                          !.tasks[t].pushes = @ + 1],
          ret |-> 0]

caio_call_new(w, t, coro, ok, g) ==
    Bind(w, LAMBDA x : CallNewBody(x, t, coro, ok, g))

(***************************************************************************)
(* caio_task_new(coro, state), caio.c:75-104.  failat names the allocation *)
(* that fails: "task", "stack", "call" or "none".                          *)
(***************************************************************************)
\* caio.c:90-101, from the registration on; t is the new task.
TaskNewRegister(w, t, coro, failat, g) ==
    LET index == FirstFree(w.reg)
    IN  IF index = NULL
        THEN [w |-> _caio_task_dispose(Fails(w, "registry full", FALSE), t, g),
              ret |-> -1]
        ELSE Bind(caio_call_new([w EXCEPT !.reg[index] = t, !.count = @ + 1,
                                          !.tasks[t].index = index],
                                t, coro, failat # "call", g),
                  LAMBDA r : IF r.ret # 0
                             THEN [w |-> _caio_task_dispose(r.w, t, g),
                                   ret |-> -1]
                             ELSE r)

TaskNewBody(w, coro, failat, g) ==
    IF failat = "task"
    THEN [w |-> Fails(w, "out of memory", TRUE), ret |-> -1]
    ELSE IF failat = "stack"
    THEN [w |-> Fails([w EXCEPT !.tasks = Append(@, [NewTask(coro) EXCEPT
                                                        !.freed = 1])],
                      "out of memory", TRUE),
          ret |-> -1]
    ELSE Bind([w EXCEPT !.tasks = Append(@, NewTask(coro))],
              LAMBDA x : TaskNewRegister(x, Len(x.tasks), coro, failat, g))

caio_task_new(w, coro, failat, g) ==
    Bind(w, LAMBDA x : TaskNewBody(x, coro, failat, g))

(***************************************************************************)
(* One invocation call->coro(task, call->state) of frame c of task t.      *)
(***************************************************************************)
\* CAIO_FINALLY / CORO_FINALLY (caio/caio.h:109-111, caio.h:44-46): the
\* finalization branch of frame c of task t runs.
CAIO_FINALLY(w, t, c) ==
    [w EXCEPT !.calls[c].fin = @ + 1, !.tasks[t].status = CAIO_TERMINATED,
              !.tasks[t].late = IF w.tasks[t].freed > 0 THEN @ + 1 ELSE @]

\* CAIO_AWAIT / CORO_WAIT (caio/caio.h:93-101, caio.h:49-57): the sub-call,
\* and TERMINATING when it failed.
CAIO_AWAIT(w, t, coro, ok, g) ==
    Bind(caio_call_new(w, t, coro, ok, g),
         LAMBDA r : IF r.ret # 0
                    THEN [r.w EXCEPT
                            !.tasks[t].status = CAIO_TERMINATING,
                            !.tasks[t].late =
                                IF r.w.tasks[t].freed > 0 THEN @ + 1 ELSE @]
                    ELSE r.w)

InvokeBody(w, t, c, failat, g) ==
    LET call == w.calls[c]
        body == CoroBody(call.coro)
        op == IF call.line <= Len(body) THEN body[call.line] ELSE Done
        w1 == [w EXCEPT
                 !.faults = IF call.freed > 0
                            THEN @ \cup {"use after free"} ELSE @,
                 !.hit = @ \/ call.freed > 0,
                 !.calls[c].inv = @ + 1,
                 !.calls[c].line = IF @ <= Len(body) THEN @ + 1 ELSE @]
    IN  CASE op.k = "again" -> [w |-> w1, status |-> "again"]
          [] op.k = "done" -> [w |-> CAIO_FINALLY(w1, t, c), status |-> "done"]
          [] op.k = "await" ->
                [w |-> CAIO_AWAIT(w1, t, op.c, failat # "call", g),
                 status |-> "again"]
          [] op.k = "awaitdone" ->
                [w |-> Bind(CAIO_AWAIT(w1, t, op.c, failat # "call", g),
                            LAMBDA x : CAIO_FINALLY(x, t, c)),
                 status |-> "done"]
          [] op.k = "spawn" ->
                [w |-> caio_task_new(w1, op.c, failat, g).w,
                 status |-> "again"]

Invoke(w, t, c, failat, g) ==
    Bind(w, LAMBDA x : InvokeBody(x, t, c, failat, g))

(***************************************************************************)
(* caio_task_step(task), caio.c:127-144.                                   *)
(***************************************************************************)
\* caio.c:133-137 without line 136: running_coros is not decremented.
StepPop_KeepsCount(w, t, call) ==
    LET stack == w.tasks[t].callstack
    IN  [w EXCEPT
            !.tasks[t].callstack = StackPop(stack),
            !.tasks[t].pops = IF stack = <<>> THEN @ ELSE @ + 1,
            !.calls[call].freed = @ + 1]

\* caio.c:133-137: the coroutine returned ccs_done.
StepPop(w, t, call) ==
    LET stack == w.tasks[t].callstack
        what == (IF w.calls[call].freed > 0 THEN {"double free"} ELSE {})
                \cup (IF StackLast(stack) # call
                      THEN {"popped another frame"} ELSE {})
    IN  [w EXCEPT
            !.faults = @ \cup what,
            !.hit = @ \/ what # {},
            !.tasks[t].callstack = StackPop(stack),
            !.tasks[t].pops = IF stack = <<>> THEN @ ELSE @ + 1,
            !.calls[call].freed = @ + 1,
            !.tasks[t].running_coros = @ - 1]

\* caio.c:139-141 left out: a task with no frame left stays registered.
StepDispose_Never(w, t, g) == w

\* caio.c:139-141.
StepDispose(w, t, g) ==
    IF w.tasks[t].running_coros = 0 THEN _caio_task_dispose(w, t, g) ELSE w

\* caio.c:132-143 with the parent resumed in the step in which its child
\* returned done, instead of in the next step.
StepAfter_ResumesParent(r, t, call, g) ==
    IF r.status # "done"
    THEN StepDispose(r.w, t, g)
    ELSE Bind(StepPop(r.w, t, call),
              LAMBDA x :
                IF x.tasks[t].callstack = <<>>
                THEN StepDispose(x, t, g)
                ELSE Bind(Invoke(x, t, StackLast(x.tasks[t].callstack),
                                 "none", g),
                          LAMBDA q :
                            IF q.status = "done"
                            THEN Bind(StepPop(q.w, t,
                                              StackLast(x.tasks[t].callstack)),
                                      LAMBDA y : StepDispose(y, t, g))
                            ELSE StepDispose(q.w, t, g)))

\* caio.c:132-143, after the coroutine returned: task is read again, and
\* the coroutine may have had it freed.
StepAfter(r, t, call, g) ==
    LET w1 == IF r.w.tasks[t].freed > 0
              THEN [r.w EXCEPT !.faults = @ \cup {"use after free"},
                               !.hit = TRUE,
                               !.tasks[t].late = @ + 1]
              ELSE r.w
    IN  IF r.status = "done"
        THEN Bind(StepPop(w1, t, call), LAMBDA x : StepDispose(x, t, g))
        ELSE StepDispose(w1, t, g)

StepBody(w, t, failat, g) ==
    LET call == StackLast(w.tasks[t].callstack)
    IN  IF call = NULL
        THEN [w EXCEPT !.tasks[t].steps = @ + 1,
                       !.faults = @ \cup {"null call"}, !.hit = TRUE]
        ELSE Bind(Invoke([w EXCEPT !.tasks[t].steps = @ + 1],
                         t, call, failat, g),
                  LAMBDA r : StepAfter(r, t, call, g))

caio_task_step(w, t, failat, g) ==
    Bind(w, LAMBDA x : StepBody(x, t, failat, g))

(***************************************************************************)
(* The state as a record, and back.                                        *)
(***************************************************************************)
World ==
    [tasks |-> tasks, calls |-> calls, reg |-> reg, count |-> reg_count,
     faults |-> faults, ooms |-> ooms, hit |-> FALSE]

Becomes(w) ==
    /\ tasks' = w.tasks
    /\ calls' = w.calls
    /\ reg' = w.reg
    /\ reg_count' = w.count
    /\ faults' = w.faults
    /\ ooms' = w.ooms

FailAt == {"none", "task", "stack", "call"}

\* What an uninitialised int may read as, as far as caiotask_array_del
\* tells: an index in range, or one out of range.
Garbage == 0..maxtasks

\* An operation that did something undefined may abort the process.
Outcome(w, crash, next) == IF w.hit /\ crash THEN "crashed" ELSE next

(***************************************************************************)
(* The application calls caio_task_new before it calls caio_forever.       *)
(***************************************************************************)
Setup_task_new ==
    /\ pc = "setup"
    /\ Len(tasks) < MaxTasks
    /\ \E coro \in Coros, failat \in FailAt, g \in Garbage, crash \in BOOLEAN :
        /\ failat # "none" => ooms < MaxOom
        /\ \E r \in {caio_task_new(World, coro, failat, g)} :
               /\ Becomes(r.w)
               /\ pc' = Outcome(r.w, crash, "setup")
    /\ UNCHANGED <<maxtasks, callstack_size, taskindex, sweep, visited,
                   atstart, poolvars, extvars>>

(***************************************************************************)
(* caio_forever, caio.c:147-163: entry, the while test, one pass of the    *)
(* for loop body.                                                          *)
(***************************************************************************)
caio_forever_enter ==
    /\ pc = "setup"
    /\ pc' = "while"
    /\ UNCHANGED <<maxtasks, callstack_size, reg, reg_count, tasks, calls,
                   taskindex, faults, ooms, sweep, visited, atstart,
                   poolvars, extvars>>

caio_forever_while ==
    /\ pc = "while"
    /\ IF reg_count # 0
       THEN /\ sweep < MaxSweeps
            /\ pc' = "for"
            /\ taskindex' = 0
            /\ sweep' = sweep + 1
            /\ visited' = <<>>
            /\ atstart' = [t \in {reg[i] : i \in DOMAIN reg} \ {NULL} |->
                                tasks[t].steps]
       ELSE /\ pc' = "returned"
            /\ UNCHANGED <<taskindex, sweep, visited, atstart>>
    /\ UNCHANGED <<maxtasks, callstack_size, reg, reg_count, tasks, calls,
                   faults, ooms, poolvars, extvars>>

\* The for loop with the bound off by one: taskindex < _tasks.size - 1.
ForNext_OffByOne(i) == IF i + 2 < maxtasks THEN "for" ELSE "while"

\* for (taskindex = 0; taskindex < _tasks.size; taskindex++) { ... }
ForNext(i) == IF i + 1 < maxtasks THEN "for" ELSE "while"

caio_forever_for ==
    /\ pc = "for"
    /\ LET task == reg[taskindex]
       IN  IF task = NULL
           THEN /\ visited' = Append(visited,
                        [slot |-> taskindex, task |-> NULL, stepped |-> FALSE])
                /\ pc' = ForNext(taskindex)
                /\ UNCHANGED <<reg, reg_count, tasks, calls, faults, ooms>>
           ELSE \E failat \in FailAt, g \in Garbage, crash \in BOOLEAN :
                /\ failat # "none" => ooms < MaxOom
                /\ \E w \in {caio_task_step(World, task, failat, g)} :
                       /\ Becomes(w)
                       /\ pc' = Outcome(w, crash \/ "null call" \in w.faults,
                                        ForNext(taskindex))
                /\ visited' = Append(visited,
                        [slot |-> taskindex, task |-> task, stepped |-> TRUE])
    /\ taskindex' = taskindex + 1
    /\ UNCHANGED <<maxtasks, callstack_size, sweep, atstart, poolvars, extvars>>

(***************************************************************************)
(* The application calls caio_task_step (caio.c:127-144) itself, outside   *)
(* caio_forever, on a task that has terminated: no frame is left on its    *)
(* call stack.  caiocall_stack_last has no frame to return, and line 132   *)
(* calls through it.                                                       *)
(***************************************************************************)
Step_terminated ==
    /\ pc \in {"setup", "returned"}
    /\ \E t \in DOMAIN tasks, g \in Garbage :
        /\ tasks[t].callstack = <<>>
        /\ \E w \in {caio_task_step(World, t, "none", g)} :
               /\ Becomes(w)
               /\ pc' = Outcome(w, "null call" \in w.faults, pc)
    /\ UNCHANGED <<maxtasks, callstack_size, taskindex, sweep, visited,
                   atstart, poolvars, extvars>>

(***************************************************************************)
(* The error macros of src/caio/caio.h:114-133, as functions of the task   *)
(* they are given.  The return that ends CAIO_RETURN, CAIO_THROW and       *)
(* CAIO_RETHROW leaves the coroutine; the task is what it leaves behind.   *)
(***************************************************************************)
\* CAIO_RETURN without line 115: the error code stays.
CAIO_RETURN_KeepsError(task) == [task EXCEPT !.status = CAIO_TERMINATING]

CAIO_RETURN(task) == [task EXCEPT !.eno = 0, !.status = CAIO_TERMINATING]

CAIO_THROW(task, n) == [task EXCEPT !.eno = n, !.status = CAIO_TERMINATING]

CAIO_RETHROW(task) == [task EXCEPT !.status = CAIO_TERMINATING]

CAIO_HASERROR(task) == task.eno # 0

CAIO_ISERROR(task, e) == CAIO_HASERROR(task) /\ task.eno = e

CAIO_CLEARERROR(task) == [task EXCEPT !.eno = 0]

\* The error codes a coroutine throws: errno values, 0 and a negative one
\* included.
ErrCodes == {0 - 1, 0, 1, 2}

\* A coroutine runs one of the macros on its task.
Macro_throw ==
    /\ Len(oplog) < MaxMacroOps
    /\ \E n \in ErrCodes :
        /\ self' = CAIO_THROW(self, n)
        /\ oplog' = Append(oplog, [op |-> "throw", n |-> n])
    /\ UNCHANGED <<poolvars, schedvars, uringvars, ringvars>>

Macro_rethrow ==
    /\ Len(oplog) < MaxMacroOps
    /\ self' = CAIO_RETHROW(self)
    /\ oplog' = Append(oplog, [op |-> "rethrow", n |-> 0])
    /\ UNCHANGED <<poolvars, schedvars, uringvars, ringvars>>

Macro_return ==
    /\ Len(oplog) < MaxMacroOps
    /\ self' = CAIO_RETURN(self)
    /\ oplog' = Append(oplog, [op |-> "return", n |-> 0])
    /\ UNCHANGED <<poolvars, schedvars, uringvars, ringvars>>

Macro_clearerror ==
    /\ Len(oplog) < MaxMacroOps
    /\ self' = CAIO_CLEARERROR(self)
    /\ oplog' = Append(oplog, [op |-> "clearerror", n |-> 0])
    /\ UNCHANGED <<poolvars, schedvars, uringvars, ringvars>>

(***************************************************************************)
(* caio_io_uring_init(u, maxtasks), src/caio/io_uring.c:60-138, one kernel *)
(* call at a time.  A mapping is named by its place in maps; MAP_FAILED is *)
(* what a failed mmap returns, 0 a pointer not assigned yet.               *)
(***************************************************************************)
MAP_FAILED == 0 - 1

\* IORING_FEAT_SINGLE_MMAP and the sizes of __u32, struct io_uring_cqe and
\* struct io_uring_sqe, from <linux/io_uring.h>.
IORING_FEAT_SINGLE_MMAP == 1
SIZEOF_U32 == 4
SIZEOF_CQE == 16
SIZEOF_SQE == 64

\* memset(&p, 0, sizeof(p)), io_uring.c:69.
ZeroParams ==
    [features |-> 0, sq_entries |-> 0, cq_entries |-> 0,
     sq_off_array |-> 0, cq_off_cqes |-> 0]

\* The least power of two that is at least n.
RECURSIVE RoundUpPow2(_, _)
RoundUpPow2(n, k) == IF k >= n THEN k ELSE RoundUpPow2(n, 2 * k)

\* What io_uring_setup(entries, &p) may write into p: the entries rounded
\* up to a power of two, twice as many completion entries, a feature word
\* with the single-mapping bit set or clear, and the rings' offsets.
KernelParams(entries) ==
    [features : 0..3,
     sq_entries : {RoundUpPow2(entries, 1)},
     cq_entries : {2 * RoundUpPow2(entries, 1)},
     sq_off_array : {64, 128},
     cq_off_cqes : {64}]

\* io_uring.c:80-92 with lines 89-90 left out: in single-mapping mode the
\* submission ring's length is taken as it is.
RingLens_SqOnly(params) ==
    LET sqringlen == params.sq_off_array + params.sq_entries * SIZEOF_U32
        cqringlen == params.cq_off_cqes + params.cq_entries * SIZEOF_CQE
    IN  IF BitAnd(params.features, IORING_FEAT_SINGLE_MMAP) # 0
        THEN [sqringlen |-> sqringlen, cqringlen |-> sqringlen]
        ELSE [sqringlen |-> sqringlen, cqringlen |-> cqringlen]

\* io_uring.c:80-92: sqringlen and cqringlen.
RingLens(params) ==
    LET sqringlen == params.sq_off_array + params.sq_entries * SIZEOF_U32
        cqringlen == params.cq_off_cqes + params.cq_entries * SIZEOF_CQE
    IN  IF BitAnd(params.features, IORING_FEAT_SINGLE_MMAP) # 0
        THEN LET len == IF cqringlen > sqringlen THEN cqringlen ELSE sqringlen
             IN  [sqringlen |-> len, cqringlen |-> len]
        ELSE [sqringlen |-> sqringlen, cqringlen |-> cqringlen]

\* io_uring.c:69-73: io_uring_setup.
uring_setup ==
    /\ ustep = "setup"
    /\ \/ /\ ringfd' = 0 - 1
          /\ uret' = 0 - 1
          /\ ustep' = "returned"
          /\ UNCHANGED <<p, openfds>>
       \/ \E fd \in {3}, params \in KernelParams(maxentries) :
          /\ ringfd' = fd
          /\ openfds' = openfds \cup {fd}
          /\ p' = params
          /\ ustep' = "mmap_sq"
          /\ UNCHANGED uret
    /\ UNCHANGED <<maxentries, maps, sq, cq, sqes>>
    /\ UNCHANGED <<poolvars, schedvars, macrovars, ringvars>>

\* io_uring.c:80-106: the lengths, the mapping of the submission ring, and
\* cq = sq in single-mapping mode.
uring_mmap_sq ==
    /\ ustep = "mmap_sq"
    /\ \/ /\ sq' = MAP_FAILED
          /\ uret' = 0 - 1
          /\ ustep' = "returned"
          /\ UNCHANGED <<maps, cq>>
       \/ /\ maps' = Append(maps, [len |-> RingLens(p).sqringlen,
                                    off |-> "IORING_OFF_SQ_RING"])
          /\ sq' = Len(maps) + 1
          /\ IF BitAnd(p.features, IORING_FEAT_SINGLE_MMAP) # 0
             THEN cq' = Len(maps) + 1 /\ ustep' = "mmap_sqes"
             ELSE cq' = cq /\ ustep' = "mmap_cq"
          /\ UNCHANGED uret
    /\ UNCHANGED <<maxentries, p, ringfd, openfds, sqes>>
    /\ UNCHANGED <<poolvars, schedvars, macrovars, ringvars>>

\* io_uring.c:107-116: the separate mapping of the completion ring.
uring_mmap_cq ==
    /\ ustep = "mmap_cq"
    /\ \/ /\ cq' = MAP_FAILED
          /\ uret' = 1
          /\ ustep' = "returned"
          /\ UNCHANGED maps
       \/ /\ maps' = Append(maps, [len |-> RingLens(p).cqringlen,
                                    off |-> "IORING_OFF_CQ_RING"])
          /\ cq' = Len(maps) + 1
          /\ ustep' = "mmap_sqes"
          /\ UNCHANGED uret
    /\ UNCHANGED <<maxentries, p, ringfd, openfds, sq, sqes>>
    /\ UNCHANGED <<poolvars, schedvars, macrovars, ringvars>>

\* io_uring.c:123-137: the mapping of the submission-entry array, and the
\* return.
uring_mmap_sqes ==
    /\ ustep = "mmap_sqes"
    /\ \/ /\ sqes' = MAP_FAILED
          /\ uret' = 1
          /\ UNCHANGED maps
       \/ /\ maps' = Append(maps, [len |-> p.sq_entries * SIZEOF_SQE,
                                    off |-> "IORING_OFF_SQES"])
          /\ sqes' = Len(maps) + 1
          /\ uret' = 0
    /\ ustep' = "returned"
    /\ UNCHANGED <<maxentries, p, ringfd, openfds, sq, cq>>
    /\ UNCHANGED <<poolvars, schedvars, macrovars, ringvars>>

(***************************************************************************)
(* The rings in use: submit_to_sq and read_from_cq as                      *)
(* src/caio/io_uring.c:159-228 has them, and the kernel on the other side  *)
(* of the shared memory.  The kernel takes submissions only inside         *)
(* io_uring_enter (to_submit = 1), completes what it took at any later     *)
(* time, and has twice as many completion entries as submission entries.   *)
(***************************************************************************)
CqEntries == 2 * ring_entries

\* io_uring.c:193-213: the entry is written at tail & mask and the new tail
\* is stored; then the process enters the kernel (line 221).
submit_to_sq ==
    /\ rpc = "idle"
    /\ sring_tail < MaxSubmits
    /\ sring_tail' = sring_tail + 1
    /\ rpc' = "enter"
    /\ UNCHANGED <<ring_entries, sring_head, cring_head, cring_tail, pending,
                   overflown>>
    /\ UNCHANGED <<poolvars, schedvars, uringvars, macrovars>>

\* Inside io_uring_enter(ring_fd, 1, 1, IORING_ENTER_GETEVENTS): the kernel
\* takes one submission.
kernel_consume ==
    /\ rpc = "enter"
    /\ sring_head < sring_tail
    /\ sring_head' = sring_head + 1
    /\ pending' = pending + 1
    /\ rpc' = "wait"
    /\ UNCHANGED <<ring_entries, sring_tail, cring_head, cring_tail,
                   overflown>>
    /\ UNCHANGED <<poolvars, schedvars, uringvars, macrovars>>

\* The kernel completes an operation: it posts a completion entry and
\* advances the completion tail, or finds the completion ring full.
kernel_complete ==
    /\ pending > 0
    /\ pending' = pending - 1
    /\ IF cring_tail - cring_head < CqEntries
       THEN cring_tail' = cring_tail + 1 /\ UNCHANGED overflown
       ELSE overflown' = overflown + 1 /\ UNCHANGED cring_tail
    /\ UNCHANGED <<ring_entries, sring_tail, sring_head, cring_head, rpc>>
    /\ UNCHANGED <<poolvars, schedvars, uringvars, macrovars>>

\* io_uring.c:221-227: io_uring_enter returns once min_complete = 1
\* completion is there to read.
io_uring_enter_returns ==
    /\ rpc = "wait"
    /\ cring_tail # cring_head
    /\ rpc' = "idle"
    /\ UNCHANGED <<ring_entries, sring_tail, sring_head, cring_head,
                   cring_tail, pending, overflown>>
    /\ UNCHANGED <<poolvars, schedvars, uringvars, macrovars>>

\* io_uring.c:222-225: io_uring_enter fails (interrupted, or the kernel is
\* busy); submit_to_sq returns -1 with the tail already stored.
io_uring_enter_fails ==
    /\ rpc \in {"enter", "wait"}
    /\ rpc' = "idle"
    /\ UNCHANGED <<ring_entries, sring_tail, sring_head, cring_head,
                   cring_tail, pending, overflown>>
    /\ UNCHANGED <<poolvars, schedvars, uringvars, macrovars>>

\* io_uring.c:159-183: with head = tail the ring is empty and -1 is
\* returned; else the entry at head & mask is read and the head advanced.
read_from_cq ==
    /\ rpc = "idle"
    /\ cring_head' = IF cring_head = cring_tail THEN cring_head
                     ELSE cring_head + 1
    /\ UNCHANGED <<ring_entries, sring_tail, sring_head, cring_tail, rpc,
                   pending, overflown>>
    /\ UNCHANGED <<poolvars, schedvars, uringvars, macrovars>>

(***************************************************************************)
(* Initial states and specifications.                                      *)
(***************************************************************************)
PoolIdle ==
    /\ pool_size = 0
    /\ pool_tasks = <<>>
    /\ pool_count = 0
    /\ handed = {}
    /\ plog = [op |-> "none", task |-> NULL, before |-> 0, run |-> 0,
               size |-> 0]

SchedIdle ==
    /\ maxtasks = 0
    /\ callstack_size = 0
    /\ reg = <<>>
    /\ reg_count = 0
    /\ tasks = <<>>
    /\ calls = <<>>
    /\ pc = "none"
    /\ taskindex = 0
    /\ faults = {}
    /\ ooms = 0
    /\ sweep = 0
    /\ visited = <<>>
    /\ atstart = <<>>

UringIdle ==
    /\ ustep = "none"
    /\ maxentries = 0
    /\ p = ZeroParams
    /\ ringfd = 0
    /\ openfds = {}
    /\ maps = <<>>
    /\ sq = 0
    /\ cq = 0
    /\ sqes = 0
    /\ uret = 0

RingIdle ==
    /\ ring_entries = 0
    /\ sring_tail = 0
    /\ sring_head = 0
    /\ cring_head = 0
    /\ cring_tail = 0
    /\ rpc = "none"
    /\ pending = 0
    /\ overflown = 0

MacroIdle ==
    /\ self = ZeroTask
    /\ oplog = <<>>

\* The state caio_taskpool_init leaves.
PoolInit ==
    /\ \E size \in 1..MaxPoolSize, beyond \in BeyondTask :
        /\ pool_size = size
        /\ pool_tasks = caio_taskpool_init(size, beyond)
        /\ plog = [op |-> "init", task |-> NULL, before |-> 0, run |-> 0,
                   size |-> size]
    /\ pool_count = 0
    /\ handed = {}
    /\ SchedIdle
    /\ UringIdle
    /\ MacroIdle
    /\ RingIdle

PoolNext ==
    \/ caio_taskpool_lease
    \/ \E task \in handed \cup {NULL} : caio_taskpool_release(task)

PoolSpec == PoolInit /\ [][PoolNext]_vars

\* The state caio_init(maxtasks, callstack_size) leaves, caio.c:45-52.
Init ==
    /\ maxtasks \in 1..MaxReg
    /\ callstack_size \in 1..MaxDepth
    /\ reg = [i \in 0..(maxtasks - 1) |-> NULL]
    /\ reg_count = 0
    /\ tasks = <<>>
    /\ calls = <<>>
    /\ pc = "setup"
    /\ taskindex = 0
    /\ faults = {}
    /\ ooms = 0
    /\ sweep = 0
    /\ visited = <<>>
    /\ atstart = <<>>
    /\ PoolIdle
    /\ UringIdle
    /\ MacroIdle
    /\ RingIdle

Next ==
    \/ Setup_task_new
    \/ caio_forever_enter
    \/ caio_forever_while
    \/ caio_forever_for

Spec == Init /\ [][Next]_vars

\* The scheduler with an application that also steps terminated tasks.
StepNext ==
    \/ Next
    \/ Step_terminated

StepSpec == Init /\ [][StepNext]_vars

\* A task leased from the pool, about to run its coroutine.
MacroInit ==
    /\ self = TASK_RESET(ZeroTask, CAIO_RUNNING)
    /\ oplog = <<>>
    /\ PoolIdle
    /\ SchedIdle
    /\ UringIdle
    /\ RingIdle

MacroNext ==
    \/ Macro_throw
    \/ Macro_rethrow
    \/ Macro_return
    \/ Macro_clearerror

MacroSpec == MacroInit /\ [][MacroNext]_vars

\* The call caio_io_uring_init(u, maxtasks) begins.
UringInit ==
    /\ ustep = "setup"
    /\ maxentries \in 1..MaxEntries
    /\ p = ZeroParams
    /\ ringfd = 0
    /\ openfds = {}
    /\ maps = <<>>
    /\ sq = 0
    /\ cq = 0
    /\ sqes = 0
    /\ uret = 0
    /\ PoolIdle
    /\ SchedIdle
    /\ MacroIdle
    /\ RingIdle

UringNext ==
    \/ uring_setup
    \/ uring_mmap_sq
    \/ uring_mmap_cq
    \/ uring_mmap_sqes

UringSpec == UringInit /\ [][UringNext]_vars

\* The rings right after a successful setup: empty.
RingInit ==
    /\ ring_entries \in 1..MaxRingEntries
    /\ sring_tail = 0
    /\ sring_head = 0
    /\ cring_head = 0
    /\ cring_tail = 0
    /\ rpc = "idle"
    /\ pending = 0
    /\ overflown = 0
    /\ PoolIdle
    /\ SchedIdle
    /\ UringIdle
    /\ MacroIdle

RingNext ==
    \/ submit_to_sq
    \/ kernel_consume
    \/ kernel_complete
    \/ io_uring_enter_returns
    \/ io_uring_enter_fails
    \/ read_from_cq

RingSpec == RingInit /\ [][RingNext]_vars

(***************************************************************************)
(* The claims about the task pool, under PoolSpec.                         *)
(***************************************************************************)
PoolSlots == 0..(pool_size - 1)

\* C1: from a fresh pool, with no release in between, each of the first
\* size leases returns a slot, and lease number size + 1 returns NULL.
C1_LeasesUpToCapacity ==
    (plog.op = "lease" /\ plog.run >= 1) =>
        /\ plog.run <= pool_size => plog.task # NULL
        /\ plog.run = pool_size + 1 => plog.task = NULL

\* C2: a release right after the lease of a task restores the free-slot
\* count (size - count) of before the lease and leaves the slot IDLE with
\* error 0 and no current frame; releasing the same task again right after
\* changes neither the count nor any slot.
C2_ReleaseRestoresIdempotent ==
    [][\A task \in handed :
        caio_taskpool_release(task) =>
            /\ pool_tasks'[task] =
                    [status |-> CAIO_IDLE, eno |-> 0, current |-> 0]
            /\ (plog.op = "lease" /\ plog.task = task) =>
                    pool_size' - pool_count' = pool_size - plog.before
            /\ (plog.op = "release" /\ plog.task = task) =>
                    /\ pool_count' = pool_count
                    /\ pool_tasks' = pool_tasks]_vars

\* C3: the live count lies in 0..size and equals the number of slots whose
\* status is not IDLE, and size is the size given at creation.
C3_CountMatchesSlots ==
    /\ pool_count \in 0..pool_size
    /\ pool_count =
        Cardinality({i \in PoolSlots : pool_tasks[i].status # CAIO_IDLE})
    /\ pool_size = plog.size

\* The lowest index of a non-empty set of slots.
Lowest(S) == CHOOSE i \in S : \A j \in S : i <= j

\* C14: caio_taskpool_lease returns the IDLE slot of lowest index among the
\* slots 0..size-1, leaves it RUNNING with error 0 and no current frame,
\* adds one to the live count and changes no other slot; with no IDLE slot
\* it returns NULL and changes nothing.
C14_LeaseFirstFit ==
    [][caio_taskpool_lease =>
        LET idle == {i \in PoolSlots : pool_tasks[i].status = CAIO_IDLE}
        IN  IF idle = {}
            THEN /\ plog'.task = NULL
                 /\ pool_tasks' = pool_tasks
                 /\ pool_count' = pool_count
            ELSE /\ plog'.task = Lowest(idle)
                 /\ pool_tasks'[Lowest(idle)] =
                        [status |-> CAIO_RUNNING, eno |-> 0, current |-> 0]
                 /\ pool_count' = pool_count + 1
                 /\ \A i \in DOMAIN pool_tasks :
                        i # Lowest(idle) => pool_tasks'[i] = pool_tasks[i]]_vars

\* Every mask of the five status bits.
StatusMasks == 1..(2 * CAIO_TERMINATED - 1)

\* The slots of the pool at or after the cursor whose status is one of the
\* statuses of the mask.
Matching(cursor, statuses) ==
    {i \in PoolSlots :
        /\ cursor # NULL => i >= cursor
        /\ BitAnd(pool_tasks[i].status, statuses) # 0}

\* C15: caio_taskpool_next returns the lowest slot at or after the cursor
\* (from slot 0 for a NULL cursor) among the slots 0..size-1 whose status is
\* in the mask, and NULL when there is none: never a slot outside the pool.
C15_NextWithinPool ==
    \A cursor \in PoolSlots \cup {NULL}, statuses \in StatusMasks :
        caio_taskpool_next(pool_tasks, pool_size, cursor, statuses) =
            IF Matching(cursor, statuses) = {} THEN NULL
            ELSE Lowest(Matching(cursor, statuses))

\* C20: right after caio_taskpool_init every slot is IDLE with error 0 and
\* no current frame, and the live count is 0.
C20_InitLeavesIdle ==
    plog.op = "init" =>
        /\ \A i \in PoolSlots :
                pool_tasks[i] = [status |-> CAIO_IDLE, eno |-> 0, current |-> 0]
        /\ pool_count = 0

(***************************************************************************)
(* The claims about the scheduler, under Spec.                             *)
(***************************************************************************)
Registered(t) == \E i \in DOMAIN reg : reg[i] = t
InForever == pc \in {"while", "for", "returned"}

\* Nothing failed and nothing undefined happened, and every coroutine only
\* suspends, awaits sub-calls and finishes.
Nominal ==
    /\ faults = {}
    /\ \A t \in DOMAIN tasks : tasks[t].coro \in Plain

\* How often task t was found in a slot in this pass.
VisitsOf(t) == Cardinality({k \in DOMAIN visited : visited[k].task = t})

\* C4: a pass of caio_forever reaches the slots in ascending order, each
\* once, all of them by its end; it steps what it finds and skips an empty
\* slot; a task registered when the pass began is stepped once if it is
\* still in its slot when the pass gets there, else not at all.
C4_SweepStepsOnce ==
    (pc \in {"for", "while"} /\ sweep >= 1) =>
        /\ \A k \in DOMAIN visited :
            /\ visited[k].slot = k - 1
            /\ visited[k].stepped <=> visited[k].task # NULL
        /\ pc = "for" => Len(visited) = taskindex
        /\ pc = "while" => Len(visited) = maxtasks
        /\ \A t \in DOMAIN atstart :
            /\ VisitsOf(t) <= 1
            /\ tasks[t].steps = atstart[t] + VisitsOf(t)

\* A pass that skipped an empty slot and then stepped a task that was
\* registered when it began.
C4_Witness ==
    /\ pc = "while"
    /\ sweep >= 2
    /\ Len(visited) = 2
    /\ visited[1].task = NULL
    /\ visited[2].task \in DOMAIN atstart
    /\ tasks[visited[2].task].steps = atstart[visited[2].task] + 1

\* Every task needs S steps.
AllNeed(S) == \A t \in DOMAIN tasks : StepsOf(tasks[t].coro) = S

\* C5: with T tasks that need S steps each, nothing failing, caio_forever
\* begins at most T*S passes, is never stuck before it returns, steps in
\* every pass every task that was registered when the pass began, and has
\* returned only with the count at zero, and then every task was stepped S
\* times and disposed once.
C5_RoundRobinCompletes ==
    /\ pc = "returned" => reg_count = 0
    /\ \A S \in {StepsOf(c) : c \in Plain} :
        (InForever /\ Nominal /\ AllNeed(S)) =>
            /\ sweep <= Len(tasks) * S
            /\ pc = "returned" \/ ENABLED Next
            /\ (pc = "while" /\ sweep >= 1) =>
                    \A t \in DOMAIN atstart : tasks[t].steps = atstart[t] + 1
            /\ pc = "returned" =>
                    /\ \A i \in DOMAIN reg : reg[i] = NULL
                    /\ \A t \in DOMAIN tasks :
                        /\ tasks[t].steps = S
                        /\ tasks[t].disposed = 1
                        /\ tasks[t].freed = 1

\* Two tasks of two steps each, done after two passes.
C5_Witness ==
    /\ pc = "returned"
    /\ Nominal
    /\ Len(tasks) = 2
    /\ AllNeed(2)
    /\ sweep = 2

\* C6: once a frame has pushed a child, it is not invoked again before the
\* child has returned done and is off the call stack.
C6_ParentWaitsForChild ==
    \A d \in DOMAIN calls :
        LET parent == calls[d].parent
        IN  (parent # NULL /\ calls[parent].inv > calls[d].pinv) =>
                /\ calls[d].fin >= 1
                /\ \A i \in DOMAIN tasks[calls[d].task].callstack :
                        tasks[calls[d].task].callstack[i] # d

\* C7: running_coros is the depth of the call stack of every task that was
\* not freed; and a task whose coroutine nests k sub-calls, nothing failing,
\* is disposed once, after caio_task_step popped its k child frames and its
\* root frame, with no frame left for _caio_task_dispose to drain.
C7_NestedCallsPopInOrder ==
    /\ \A t \in DOMAIN tasks :
        tasks[t].freed = 0 =>
            tasks[t].running_coros = Len(tasks[t].callstack)
    /\ \A t \in DOMAIN tasks :
        (Nominal /\ tasks[t].disposed >= 1) =>
            /\ tasks[t].disposed = 1
            /\ tasks[t].pushes = KidsOf(tasks[t].coro) + 1
            /\ tasks[t].pops = KidsOf(tasks[t].coro) + 1
            /\ tasks[t].drained = 0
            /\ tasks[t].callstack = <<>>

\* A task whose coroutine nested two sub-calls is disposed.
C7_Witness ==
    \E t \in DOMAIN tasks :
        /\ Nominal
        /\ tasks[t].coro = "N"
        /\ tasks[t].disposed = 1
        /\ tasks[t].pops = 3

\* The frames task t pushed besides its root frame.
ChildrenOf(t) == {c \in DOMAIN calls : calls[c].task = t /\ calls[c].parent # NULL}

\* C8 as claimed: a task whose root coroutine awaits one child that is done
\* after s steps is disposed after s + 1 steps; a task whose coroutine
\* finishes at once is disposed after one step.
C8_AwaitStepsPlusOne ==
    \A t \in DOMAIN tasks :
        (Nominal /\ tasks[t].disposed >= 1) =>
            /\ tasks[t].coro = "A" => tasks[t].steps = 1
            /\ tasks[t].coro = "B" =>
                \A c \in ChildrenOf(t) : tasks[t].steps = calls[c].inv + 1

\* C8 as amended: s + 2 steps, one for the await, s for the child, one for
\* the parent to resume and finish.
C8_AwaitStepsPlusTwo ==
    \A t \in DOMAIN tasks :
        (Nominal /\ tasks[t].disposed >= 1) =>
            /\ tasks[t].coro = "A" => tasks[t].steps = 1
            /\ tasks[t].coro = "B" =>
                /\ Cardinality(ChildrenOf(t)) = 1
                /\ \A c \in ChildrenOf(t) :
                    /\ calls[c].inv = Len(CoroBody(calls[c].coro))
                    /\ tasks[t].steps = calls[c].inv + 2

\* A task whose coroutine awaited a child of two steps is disposed.
C8_Witness ==
    \E t \in DOMAIN tasks :
        /\ Nominal
        /\ tasks[t].coro = "B"
        /\ tasks[t].disposed = 1
        /\ \E c \in ChildrenOf(t) : calls[c].inv = 2

\* The drain of an error unwind: when caio_call_new fails on a task whose call stack holds
\* d frames, _caio_task_dispose pops and frees exactly those d frames, each
\* once, the frames below the running one without another invocation and
\* without their finalization branch, and the task is off the registry and
\* freed with its call stack empty.
C9_ErrorUnwindDrains ==
    /\ \A t \in DOMAIN tasks :
        tasks[t].errdepth # NULL =>
            /\ tasks[t].drained = tasks[t].errdepth
            /\ tasks[t].freed >= 1
            /\ ~Registered(t)
    /\ \A t \in DOMAIN tasks : tasks[t].freed >= 1 => tasks[t].callstack = <<>>
    /\ \A c \in DOMAIN calls : calls[c].drained <= 1
    /\ \A c, d \in DOMAIN calls :
        (calls[d].parent = c /\ calls[c].drained = 1 /\ calls[d].drained = 1) =>
            /\ calls[c].fin = 0
            /\ calls[c].inv = calls[d].pinv

\* C9: an error raised at call-stack depth d drains exactly d frames, invokes
\* no coroutine body while draining, and only after the stack is empty is the
\* task marked TERMINATED and removed from the registry and freed.
C9_ErrorUnwindTerminated ==
    /\ C9_ErrorUnwindDrains
    /\ \A t \in DOMAIN tasks :
        tasks[t].errdepth # NULL => tasks[t].status = CAIO_TERMINATED

\* A sub-call failed at depth two and both frames were drained.
C9_Witness ==
    \E t \in DOMAIN tasks :
        /\ tasks[t].errdepth = 2
        /\ tasks[t].drained = 2
        /\ tasks[t].freed = 1

\* C10: a frame that was freed has run its finalization branch exactly
\* once.
C10_FinalizedOnceBeforeFree ==
    \A c \in DOMAIN calls : calls[c].freed >= 1 => calls[c].fin = 1

\* A call of caio_task_new by the application has just failed: an allocation
\* failed, or the task it allocated is freed again.
TaskNewFailed ==
    /\ pc = "setup"
    /\ pc' # "while"
    /\ \/ ooms' > ooms
       \/ /\ Len(tasks') > Len(tasks)
          /\ tasks'[Len(tasks')].freed >= 1

\* C11: when caio_task_new fails, the registry has the same occupied slots
\* and the same count as before the call, and every object the call
\* allocated (the task, its first frame) is freed exactly once: the task is
\* disposed at most once and no task that existed before is touched.
C11_TaskNewRollsBack ==
    [][TaskNewFailed =>
        /\ reg' = reg
        /\ reg_count' = reg_count
        /\ \A t \in DOMAIN tasks : tasks'[t] = tasks[t]
        /\ \A t \in DOMAIN tasks' \ DOMAIN tasks :
            /\ tasks'[t].freed = 1
            /\ tasks'[t].disposed <= 1
        /\ \A c \in DOMAIN calls : calls'[c] = calls[c]
        /\ \A c \in DOMAIN calls' \ DOMAIN calls : calls'[c].freed = 1]_vars

\* C12: when caio_call_new fails under a coroutine that caio_task_step is
\* running, the task is disposed exactly once, and once it is disposed
\* nothing reads, writes or disposes it again.
C12_FailedCallDisposesOnce ==
    \A t \in DOMAIN tasks :
        (tasks[t].errdepth # NULL /\ tasks[t].steps >= 1) =>
            /\ tasks[t].disposed = 1
            /\ tasks[t].freed = 1
            /\ tasks[t].late = 0

\* C13: caio_task_step on a task with no frame left invokes nothing, pops
\* nothing and leaves the task, the counters and the registry as they were;
\* the program goes on.
C13_StepOnTerminatedIsNoOp ==
    [][Step_terminated =>
        /\ pc' = pc
        /\ reg' = reg
        /\ reg_count' = reg_count
        /\ calls' = calls
        /\ \A t \in DOMAIN tasks :
            /\ tasks'[t].callstack = tasks[t].callstack
            /\ tasks'[t].running_coros = tasks[t].running_coros
            /\ tasks'[t].freed = tasks[t].freed
            /\ tasks'[t].disposed = tasks[t].disposed]_vars

\* Frame c is on the call stack of its task.
OnStack(c) ==
    \E i \in DOMAIN tasks[calls[c].task].callstack :
        tasks[calls[c].task].callstack[i] = c

\* C21: when caio_task_step sees its coroutine return done, the frame it
\* pops is the frame it invoked and frees: no frame on a call stack is
\* freed, and a frame that was taken off a call stack is freed.
C21_PopsInvokedFrame ==
    /\ "popped another frame" \notin faults
    /\ \A c \in DOMAIN calls : calls[c].freed >= 1 => ~OnStack(c)
    /\ \A t \in DOMAIN tasks :
        tasks[t].pops + tasks[t].drained =
            Cardinality({c \in DOMAIN calls :
                            calls[c].task = t /\ calls[c].freed >= 1})

(***************************************************************************)
(* The claims about caio_io_uring_init, under UringSpec.                   *)
(***************************************************************************)
\* One of the kernel steps of the call failed.
UringFailed ==
    \/ ringfd < 0
    \/ sq = MAP_FAILED
    \/ cq = MAP_FAILED
    \/ sqes = MAP_FAILED

\* C16: caio_io_uring_init returns a negative result whenever io_uring_setup
\* or one of the three mmap calls failed, and 0 only when all succeeded.
C16_InitNegativeOnFailure ==
    ustep = "returned" =>
        /\ UringFailed => uret < 0
        /\ uret = 0 => (~UringFailed /\ sq > 0 /\ cq > 0 /\ sqes > 0)

\* C19: once both rings are mapped, the process holds, when the kernel
\* reported the single-mapping flag, exactly one ring mapping, of length
\* max(submission-ring length, completion-ring length), that serves as both
\* rings, else a submission-ring mapping and then a completion-ring mapping
\* of their own lengths; in both modes the submission-entry array is mapped
\* after them, apart, and a successful call has made all of them.
C19_SingleOrSeparateMappings ==
    LET sqlen == p.sq_off_array + p.sq_entries * SIZEOF_U32
        cqlen == p.cq_off_cqes + p.cq_entries * SIZEOF_CQE
        single == p.features % 2 = 1
        rings == IF single
                 THEN <<[len |-> IF cqlen > sqlen THEN cqlen ELSE sqlen,
                         off |-> "IORING_OFF_SQ_RING"]>>
                 ELSE <<[len |-> sqlen, off |-> "IORING_OFF_SQ_RING"],
                        [len |-> cqlen, off |-> "IORING_OFF_CQ_RING"]>>
        array == [len |-> p.sq_entries * SIZEOF_SQE,
                  off |-> "IORING_OFF_SQES"]
    IN  /\ (ustep = "returned" /\ uret = 0) => (sq > 0 /\ cq > 0 /\ sqes > 0)
        /\ (sq > 0 /\ cq > 0) =>
            /\ sq = 1
            /\ cq = Len(rings)
            /\ IF sqes > 0
               THEN maps = Append(rings, array) /\ sqes = Len(rings) + 1
               ELSE maps = rings

\* A successful call in single-mapping mode in which the completion ring is
\* the longer of the two.
C19_Witness ==
    /\ ustep = "returned"
    /\ uret = 0
    /\ p.features % 2 = 1
    /\ p.cq_off_cqes + p.cq_entries * SIZEOF_CQE >
            p.sq_off_array + p.sq_entries * SIZEOF_U32
    /\ Len(maps) = 2
    /\ cq = sq

(***************************************************************************)
(* The claim about the error macros, under MacroSpec.                      *)
(***************************************************************************)
\* The code of the most recent throw of the log that no return or
\* clearerror followed, 0 when there is none.
RECURSIVE ErrorAfter(_)
ErrorAfter(log) ==
    IF log = <<>> THEN 0
    ELSE LET last == log[Len(log)]
         IN  CASE last.op = "throw" -> last.n
               [] last.op \in {"return", "clearerror"} -> 0
               [] OTHER -> ErrorAfter(SubSeq(log, 1, Len(log) - 1))

\* C17: after any sequence of CAIO_THROW, CAIO_RETHROW, CAIO_RETURN and
\* CAIO_CLEARERROR the error field is the code of the most recent throw not
\* followed by a return or clearerror (else 0), CAIO_HASERROR says whether
\* it is non-zero, CAIO_ISERROR(e) whether it is non-zero and e, and a
\* throw, rethrow or return leaves the status TERMINATING.
C17_ErrorFieldTracksThrow ==
    /\ self.eno = ErrorAfter(oplog)
    /\ CAIO_HASERROR(self) <=> ErrorAfter(oplog) # 0
    /\ \A e \in ErrCodes :
        CAIO_ISERROR(self, e) <=> (ErrorAfter(oplog) # 0 /\ ErrorAfter(oplog) = e)
    /\ (oplog # <<>> /\ oplog[Len(oplog)].op \in {"throw", "rethrow", "return"})
            => self.status = CAIO_TERMINATING

\* An error was thrown, thrown on, and then cleared by a return.
C17_Witness ==
    /\ Len(oplog) = 3
    /\ oplog[1] = [op |-> "throw", n |-> 2]
    /\ oplog[2].op = "rethrow"
    /\ oplog[3].op = "return"
    /\ ~CAIO_HASERROR(self)
    /\ self.status = CAIO_TERMINATING

(***************************************************************************)
(* The claim about the rings, under RingSpec.                              *)
(***************************************************************************)
\* C18: the completion head never passes the completion tail, and the
\* submission tail is never more than the ring capacity ahead of the
\* entries acknowledged (read from the completion ring).  The capacity is
\* taken as that of the larger ring, the completion ring.
C18_InFlightWithinCapacity ==
    /\ cring_head <= cring_tail
    /\ sring_tail - cring_head <= CqEntries

\* C22: when caio_io_uring_init fails after io_uring_setup gave it the ring
\* descriptor, it returns holding nothing it acquired: the descriptor is
\* closed and every mapping made is unmapped.
C22_FailedInitReleasesAll ==
    (ustep = "returned" /\ uret # 0 /\ ringfd >= 0) =>
        /\ openfds = {}
        /\ maps = <<>>

====
